---- MODULE Spec2Model ----
(***************************************************************************)
(* Model of fast_screen_variants.py: primer-conflict screening per         *)
(* chromosome, the by-chromosome fan-out, diagnostic-allele filtering, the *)
(* greedy spacing filter, quality scoring and the screening pipeline.      *)
(*                                                                         *)
(* A DataFrame is a record [columns, rows]: the set of its column names    *)
(* and the sequence of its rows, each row a record of the columns' values. *)
(* An optional integer is None (<<>>) or Some(v) (<<v>>); a local not yet  *)
(* assigned holds Unset.                                                   *)
(***************************************************************************)
EXTENDS Integers, Sequences, FiniteSets, TLC

VARIABLES df, cfg, pc, arg, result, locals, invoked, log

vars == <<df, cfg, pc, arg, result, locals, invoked, log>>

None == <<>>
Some(v) == <<v>>

\* ------------------------------------------------------------ bounds
MaxPos == 3
MaxRows == 3
MaxSpacingRows == 4
MaxDiagRows == 2
MaxPipelineRows == 2

\* ------------------------------------------------------------ defaults
Default_primer_size == 20
Default_amplicon_size == 300
Default_displacement_steps == 5
Default_min_spacing == 1000
Pipeline_min_spacing == 2000
Default_max_snps == 50
PoolCap == 4

DefaultCfg ==
  [primer_size |-> Default_primer_size, amplicon_size |-> Default_amplicon_size,
   displacement_steps |-> Default_displacement_steps, n_workers |-> None,
   min_spacing |-> Default_min_spacing, target_parent |-> "664c",
   min_reliability |-> "medium", max_snps |-> Default_max_snps]

\* ------------------------------------------------------------ helpers
Min(a, b) == IF a <= b THEN a ELSE b

Chroms == {"1", "2"}

\* Sort order of the chromosome labels (string comparison of "1" and "2").
ChromRank(c) == IF c = "1" THEN 1 ELSE 2

EmptyDataFrame == [columns |-> {}, rows |-> <<>>]

\* the value of a local that is not assigned yet
Unset == [columns |-> {}, rows |-> <<>>]

NoLocals == [filtered |-> Unset, diagnostic |-> Unset, screened |-> Unset,
             primer_compliant |-> Unset, spaced |-> Unset]

\* ------------------------------------------------------------ screening
\* has_conflict with a fault: the upper boundary of a region is not a conflict
has_conflict_open_end(other_positions, lo, hi) ==
  \E k \in DOMAIN other_positions :
     other_positions[k] >= lo /\ other_positions[k] < hi

\* np.any((other_positions >= lo) & (other_positions <= hi))
has_conflict(other_positions, lo, hi) ==
  \E k \in DOMAIN other_positions :
     other_positions[k] >= lo /\ other_positions[k] <= hi

\* positions[positions != pos]
other_positions_of(positions, pos) == SelectSeq(positions, LAMBDA p : p # pos)

\* placement_free with a fault: any other position inside the amplicon conflicts
placement_free_whole_amplicon(others, amp_start, amp_end, primer_size) ==
  ~has_conflict(others, amp_start, amp_end)

\* not f_conflicts and not r_conflicts, for the window [amp_start, amp_end]
placement_free(others, amp_start, amp_end, primer_size) ==
  /\ ~has_conflict(others, amp_start, amp_start + primer_size)
  /\ ~has_conflict(others, amp_end - primer_size, amp_end)

\* shift_order with a fault: only the left direction is tried
shift_order_left_only(displacement_steps) ==
  [k \in 1..(2 * displacement_steps) |-> -((k + 1) \div 2)]

\* The shifts in the order the two nested loops try them: -1, 1, -2, 2, ...
shift_order(displacement_steps) ==
  [k \in 1..(2 * displacement_steps) |->
     IF k % 2 = 1 THEN -((k + 1) \div 2) ELSE k \div 2]

\* the displacement search of one variant: the index of the first shift that
\* keeps pos in the window and has no conflict, or 0 when there is none
first_placement(others, pos, amp_start, amp_end, primer_size, displacement_steps) ==
  LET shifts == shift_order(displacement_steps)
      ok(k) == /\ amp_start + shifts[k] <= pos
               /\ pos <= amp_end + shifts[k]
               /\ placement_free(others, amp_start + shifts[k],
                                 amp_end + shifts[k], primer_size)
      found == {k \in DOMAIN shifts : ok(k)}
  IN  IF found = {} THEN 0
      ELSE CHOOSE k \in found : \A j \in found : k <= j

\* screen_row with a fault: a displaced placement does not record its shift
screen_row_shift_not_recorded(positions, i, primer_size, amplicon_size, displacement_steps) ==
  LET pos == positions[i]
      amp_start == pos - (amplicon_size \div 2)
      amp_end == pos + (amplicon_size \div 2)
      others == other_positions_of(positions, pos)
      k == first_placement(others, pos, amp_start, amp_end, primer_size,
                           displacement_steps)
      shift == shift_order(displacement_steps)[k]
  IN  IF placement_free(others, amp_start, amp_end, primer_size)
      THEN [primer_compliant |-> TRUE, amplicon_start |-> Some(amp_start),
            amplicon_end |-> Some(amp_end), displacement |-> 0]
      ELSE IF k = 0
      THEN [primer_compliant |-> FALSE, amplicon_start |-> None,
            amplicon_end |-> None, displacement |-> 0]
      ELSE [primer_compliant |-> TRUE, amplicon_start |-> Some(amp_start + shift),
            amplicon_end |-> Some(amp_end + shift), displacement |-> 0]

\* the annotations the loop body leaves on row i
screen_row(positions, i, primer_size, amplicon_size, displacement_steps) ==
  LET pos == positions[i]
      amp_start == pos - (amplicon_size \div 2)
      amp_end == pos + (amplicon_size \div 2)
      others == other_positions_of(positions, pos)
      k == first_placement(others, pos, amp_start, amp_end, primer_size,
                           displacement_steps)
      shift == shift_order(displacement_steps)[k]
  IN  IF placement_free(others, amp_start, amp_end, primer_size)
      THEN [primer_compliant |-> TRUE, amplicon_start |-> Some(amp_start),
            amplicon_end |-> Some(amp_end), displacement |-> 0]
      ELSE IF k = 0
      THEN [primer_compliant |-> FALSE, amplicon_start |-> None,
            amplicon_end |-> None, displacement |-> 0]
      ELSE [primer_compliant |-> TRUE, amplicon_start |-> Some(amp_start + shift),
            amplicon_end |-> Some(amp_end + shift), displacement |-> shift]

ScreenColumns == {"primer_compliant", "amplicon_start", "amplicon_end", "displacement"}

fast_screen_single_chromosome(chrom_data, primer_size, amplicon_size, displacement_steps) ==
  LET positions == [i \in DOMAIN chrom_data.rows |-> chrom_data.rows[i].POS]
  IN  [columns |-> chrom_data.columns \cup ScreenColumns,
       rows |-> [i \in DOMAIN chrom_data.rows |->
                   screen_row(positions, i, primer_size, amplicon_size,
                              displacement_steps) @@ chrom_data.rows[i]]]

\* one group of df.groupby('CHROM'): the rows of chromosome c, in df's order
chrom_group(d, c) ==
  [columns |-> d.columns, rows |-> SelectSeq(d.rows, LAMBDA r : r.CHROM = c)]

\* the group keys in sorted order
RECURSIVE sorted_chroms(_)
sorted_chroms(S) ==
  IF S = {} THEN <<>>
  ELSE LET c == CHOOSE x \in S : \A y \in S : ChromRank(x) <= ChromRank(y)
       IN  <<c>> \o sorted_chroms(S \ {c})

chrom_groups(d) ==
  LET keys == sorted_chroms({d.rows[i].CHROM : i \in DOMAIN d.rows})
  IN  [g \in DOMAIN keys |-> chrom_group(d, keys[g])]

\* pd.concat(results, ignore_index=True)
RECURSIVE concat_rows(_)
concat_rows(results) ==
  IF results = <<>> THEN <<>>
  ELSE Head(results).rows \o concat_rows(Tail(results))

\* n_workers = min(mp.cpu_count() - 1, 4) when None
resolve_workers(n_workers, cpu_count) ==
  IF n_workers = None THEN Min(cpu_count - 1, PoolCap) ELSE n_workers[1]

\* mp.Pool(n) raises ValueError for n < 1 and pd.concat([]) for no group at all
parallel_raises(d, workers) ==
  /\ ~(Len(chrom_groups(d)) = 1 \/ workers = 1)
  /\ (workers < 1 \/ Len(chrom_groups(d)) = 0)

fast_screen_variants_parallel(d, primer_size, amplicon_size, displacement_steps, workers) ==
  LET groups == chrom_groups(d)
  IN  IF Len(groups) = 1 \/ workers = 1
      THEN fast_screen_single_chromosome(d, primer_size, amplicon_size,
                                         displacement_steps)
      ELSE LET results == [g \in DOMAIN groups |->
                             fast_screen_single_chromosome(groups[g], primer_size,
                                                           amplicon_size,
                                                           displacement_steps)]
           IN  [columns |-> results[1].columns, rows |-> concat_rows(results)]

\* ------------------------------------------------------------ SpecScreen
PosRow(c, p) == [CHROM |-> c, POS |-> p]

SmallRows == {PosRow(c, p) : c \in Chroms, p \in 0..MaxPos}
ScenarioRows == {PosRow("1", p) : p \in {860, 1000, 1015, 5000}}
ScenarioLen == 3

WorkerChoices == {None, Some(1), Some(2)}
CpuCounts == {1, 8}

InitScreen ==
  /\ \/ /\ \E k \in 0..MaxRows : \E s \in [1..k -> SmallRows] :
              df = [columns |-> {"CHROM", "POS"}, rows |-> s]
        /\ cfg \in {[DefaultCfg EXCEPT !.primer_size = sz[1], !.amplicon_size = sz[2],
                                      !.displacement_steps = ds] :
                      sz \in {<<1, 4>>, <<2, 4>>, <<1, 5>>}, ds \in {0, 1, 3}}
     \/ /\ \E k \in 0..ScenarioLen : \E s \in [1..k -> ScenarioRows] :
              df = [columns |-> {"CHROM", "POS"}, rows |-> s]
        /\ cfg \in {DefaultCfg, [DefaultCfg EXCEPT !.displacement_steps = 12]}
  /\ pc = "ready"
  /\ arg = Unset
  /\ result = Unset
  /\ locals = NoLocals
  /\ invoked = <<>>
  /\ log = <<>>

\* fast_screen_single_chromosome called on the group of one chromosome
ScreenGroup ==
  /\ pc = "ready"
  /\ \E c \in {df.rows[i].CHROM : i \in DOMAIN df.rows} :
       /\ arg' = chrom_group(df, c)
       /\ result' = fast_screen_single_chromosome(chrom_group(df, c), cfg.primer_size,
                       cfg.amplicon_size, cfg.displacement_steps)
  /\ pc' = "screened_group"
  /\ UNCHANGED <<df, cfg, locals, invoked, log>>

\* fast_screen_variants_parallel called on the whole table
ScreenParallel ==
  /\ pc = "ready"
  /\ \E n \in WorkerChoices, cpu_count \in CpuCounts :
       LET workers == resolve_workers(n, cpu_count)
       IN  /\ cfg' = [cfg EXCEPT !.n_workers = Some(workers)]
           /\ IF parallel_raises(df, workers)
              THEN pc' = "ValueError" /\ result' = result
              ELSE /\ pc' = "screened_parallel"
                   /\ result' = fast_screen_variants_parallel(df, cfg.primer_size,
                                   cfg.amplicon_size, cfg.displacement_steps, workers)
  /\ UNCHANGED <<df, arg, locals, invoked, log>>

NextScreen == ScreenGroup \/ ScreenParallel

SpecScreen == InitScreen /\ [][NextScreen]_vars

\* ------------------------------------------------------------ spacing filter
\* chrom_pos_le with a fault: positions sort descending
chrom_pos_le_descending(a, b) ==
  \/ ChromRank(a.CHROM) < ChromRank(b.CHROM)
  \/ a.CHROM = b.CHROM /\ a.POS >= b.POS

\* the order of df.sort_values(['CHROM', 'POS']): a sorts no later than b
chrom_pos_le(a, b) ==
  \/ ChromRank(a.CHROM) < ChromRank(b.CHROM)
  \/ a.CHROM = b.CHROM /\ a.POS <= b.POS

\* r put into the sorted sequence s, after the rows that sort no later than it
RECURSIVE insert_sorted(_, _)
insert_sorted(r, s) ==
  IF s = <<>> THEN <<r>>
  ELSE IF chrom_pos_le(Head(s), r) THEN <<Head(s)>> \o insert_sorted(r, Tail(s))
  ELSE <<r>> \o s

\* df.sort_values(['CHROM', 'POS']) (a stable sort)
RECURSIVE sort_values(_)
sort_values(rows) ==
  IF rows = <<>> THEN <<>>
  ELSE insert_sorted(rows[Len(rows)], sort_values(SubSeq(rows, 1, Len(rows) - 1)))

\* spacing_sweep with a fault: one last position shared by all chromosomes
RECURSIVE spacing_sweep_shared_last(_, _, _)
spacing_sweep_shared_last(rows, last_pos, min_spacing) ==
  IF rows = <<>> THEN <<>>
  ELSE LET row == Head(rows)
           take == \/ DOMAIN last_pos = {}
                   \/ \A c \in DOMAIN last_pos : (row.POS - last_pos[c]) >= min_spacing
       IN  IF take
           THEN <<row>> \o spacing_sweep_shared_last(Tail(rows),
                              [c \in {"any"} |-> row.POS], min_spacing)
           ELSE spacing_sweep_shared_last(Tail(rows), last_pos, min_spacing)

\* the loop over df_sorted: last_pos maps the chromosomes seen to the position
\* last selected on them; the rows selected, in order
RECURSIVE spacing_sweep(_, _, _)
spacing_sweep(rows, last_pos, min_spacing) ==
  IF rows = <<>> THEN <<>>
  ELSE LET row == Head(rows)
           take == \/ row.CHROM \notin DOMAIN last_pos
                   \/ (row.POS - last_pos[row.CHROM]) >= min_spacing
       IN  IF take
           THEN <<row>> \o spacing_sweep(Tail(rows),
                              [c \in DOMAIN last_pos \cup {row.CHROM} |->
                                 IF c = row.CHROM THEN row.POS ELSE last_pos[c]],
                              min_spacing)
           ELSE spacing_sweep(Tail(rows), last_pos, min_spacing)

fast_apply_spacing_filter(d, min_spacing) ==
  IF Len(d.rows) = 0 THEN d
  ELSE [columns |-> d.columns,
        rows |-> spacing_sweep(sort_values(d.rows), <<>>, min_spacing)]

\* ------------------------------------------------------------ SpecSpacing
SpacingRows == {PosRow(c, p) : c \in Chroms, p \in {100, 1050, 1060, 3000}}
SpacingChoices == {-5, 0, 10, 950, 1000, 1950, 2000}

InitSpacing ==
  /\ \E k \in 0..MaxSpacingRows : \E s \in [1..k -> SpacingRows] :
        df = [columns |-> {"CHROM", "POS"}, rows |-> s]
  /\ cfg \in {[DefaultCfg EXCEPT !.min_spacing = m] : m \in SpacingChoices}
  /\ pc = "ready"
  /\ arg = Unset
  /\ result = Unset
  /\ locals = NoLocals
  /\ invoked = <<>>
  /\ log = <<>>

\* fast_apply_spacing_filter called on the table
ApplySpacing ==
  /\ pc = "ready"
  /\ arg' = df
  /\ result' = fast_apply_spacing_filter(df, cfg.min_spacing)
  /\ pc' = "spaced"
  /\ UNCHANGED <<df, cfg, locals, invoked, log>>

NextSpacing == ApplySpacing

SpecSpacing == InitSpacing /\ [][NextSpacing]_vars

\* the positions of the rows of chromosome c, in the rows' order
PositionsOf(rows, c) ==
  LET g == SelectSeq(rows, LAMBDA r : r.CHROM = c)
  IN  [i \in DOMAIN g |-> g[i].POS]

\* C3: in the spacing filter's output, taken per chromosome in position order,
\* consecutive selected positions p1 <= p2 have p2 - p1 >= min_spacing, and the
\* lowest position of every chromosome of the input is selected.
C3_SpacingHolds ==
  pc = "spaced" =>
    \A c \in Chroms :
       LET sel == PositionsOf(result.rows, c)
           inp == PositionsOf(arg.rows, c)
       IN  /\ \A i \in DOMAIN sel : i > 1 =>
                 /\ sel[i - 1] <= sel[i]
                 /\ sel[i] - sel[i - 1] >= cfg.min_spacing
           /\ inp # <<>> =>
                 /\ sel # <<>>
                 /\ \A j \in DOMAIN inp : sel[1] <= inp[j]
                 /\ \E j \in DOMAIN inp : sel[1] = inp[j]

C3_Witness ==
  /\ pc = "spaced"
  /\ cfg.min_spacing > 0
  /\ Len(result.rows) < Len(arg.rows)
  /\ \E c \in Chroms : Len(PositionsOf(result.rows, c)) >= 2
  /\ \A c \in Chroms : PositionsOf(result.rows, c) # <<>>

\* the scenario of C10: one chromosome, positions [100, 1050, 1060, 3000],
\* min_spacing 1000
C10_Scenario ==
  /\ pc = "spaced"
  /\ arg.rows = <<PosRow("1", 100), PosRow("1", 1050), PosRow("1", 1060),
                  PosRow("1", 3000)>>
  /\ cfg.min_spacing = 1000

\* C10 (as stated): the scenario selects exactly [100, 1050, 3000].
C10_Original ==
  C10_Scenario => PositionsOf(result.rows, "1") = <<100, 1050, 3000>>

\* C10 (amended): the scenario selects exactly [100, 3000]: 1050 and 1060 are
\* both less than 1000 above the last selected position 100.
C10_SelectsFirstAndLast ==
  C10_Scenario => PositionsOf(result.rows, "1") = <<100, 3000>>

C10_Witness == C10_Scenario /\ Len(result.rows) = 2

\* ------------------------------------------------------------ diagnostic filter
\* a missing allele (NaN)
NaN == "NaN"

AlleleColumns == {"664c_allele", "767_allele", "1034_allele"}

\* col.endswith('_allele')
endswith_allele(col) == col \in AlleleColumns

\* f"{target_parent}_allele"
allele_column(target_parent) ==
  CASE target_parent = "664c" -> "664c_allele"
    [] target_parent = "767" -> "767_allele"
    [] target_parent = "1034" -> "1034_allele"

\* series.notna(), for one value
notna(a) == a # NaN

\* a != b of two cells: a comparison with a missing value is True
ne(a, b) == IF a = NaN \/ b = NaN THEN TRUE ELSE a # b

\* (target_alleles != 'N') & (target_alleles.notna()), for one row
valid_target(target) == ne(target, "N") /\ notna(target)

\* differs with a fault: a missing allele of another parent is not rejected
differs_missing_accepted(target, other) == ne(target, other) /\ ne(other, "N")

\* (target_alleles != other_alleles) & (other_alleles != 'N') & (other_alleles.notna())
differs(target, other) == ne(target, other) /\ ne(other, "N") /\ notna(other)

\* is_diagnostic, for one row
is_diagnostic(row, target_col, other_cols) ==
  /\ valid_target(row[target_col])
  /\ \A other_col \in other_cols : differs(row[target_col], row[other_col])

target_missing(d, target_parent) ==
  allele_column(target_parent) \notin {col \in d.columns : endswith_allele(col)}

fast_filter_diagnostic_variants(d, target_parent) ==
  LET allele_cols == {col \in d.columns : endswith_allele(col)}
      target_col == allele_column(target_parent)
      other_cols == allele_cols \ {target_col}
  IN  IF target_col \notin allele_cols
      THEN EmptyDataFrame
      ELSE [columns |-> d.columns,
            rows |-> SelectSeq(d.rows,
                       LAMBDA row : is_diagnostic(row, target_col, other_cols))]

\* the records logging.error / logging.warning leave
ErrorTargetNotFound == [level |-> "error", msg |-> "Target parent column not found"]
WarningNoCompliant ==
  [level |-> "warning", msg |-> "No primer compliant variants found, using all diagnostic variants"]

\* ------------------------------------------------------------ SpecDiagnostic
Alleles == {"A", "T", "N", NaN}

\* the rows a table with the allele columns cols can hold
DiagRows(cols) == {PosRow("1", 100) @@ a : a \in [cols -> Alleles]}

InitDiagnostic ==
  /\ \E cols \in SUBSET AlleleColumns : \E k \in 0..MaxDiagRows :
        \E s \in [1..k -> DiagRows(cols)] :
           df = [columns |-> {"CHROM", "POS"} \cup cols, rows |-> s]
  /\ cfg \in {[DefaultCfg EXCEPT !.target_parent = t] : t \in {"664c", "767"}}
  /\ pc = "ready"
  /\ arg = Unset
  /\ result = Unset
  /\ locals = NoLocals
  /\ invoked = <<>>
  /\ log = <<>>

\* fast_filter_diagnostic_variants called on the table
FilterDiagnostic ==
  /\ pc = "ready"
  /\ arg' = df
  /\ result' = fast_filter_diagnostic_variants(df, cfg.target_parent)
  /\ log' = IF target_missing(df, cfg.target_parent)
            THEN Append(log, ErrorTargetNotFound) ELSE log
  /\ pc' = "filtered"
  /\ UNCHANGED <<df, cfg, locals, invoked>>

NextDiagnostic == FilterDiagnostic

SpecDiagnostic == InitDiagnostic /\ [][NextDiagnostic]_vars

\* an allele that is a call: not the no-call sentinel 'N' and not missing
IsCall(a) == a # "N" /\ a # NaN

OtherAlleleColumns(d, target_parent) ==
  (d.columns \cap AlleleColumns) \ {allele_column(target_parent)}

\* C2 (as stated): a row is retained iff its target allele is a call and every
\* other allele column holds a no-call or an allele that differs from the target's.
C2_Original ==
  (pc = "filtered" /\ ~target_missing(arg, cfg.target_parent)) =>
    LET t == allele_column(cfg.target_parent)
    IN  result.rows =
          SelectSeq(arg.rows, LAMBDA row :
            /\ IsCall(row[t])
            /\ \A o \in OtherAlleleColumns(arg, cfg.target_parent) :
                  ~IsCall(row[o]) \/ row[o] # row[t])

\* C2 (amended): a row is retained iff its target allele is a call and every
\* other allele column holds a call that differs from the target's; a row with
\* a no-call in another allele column is rejected.
C2_RetainedIffAllOthersCalledAndDiffer ==
  (pc = "filtered" /\ ~target_missing(arg, cfg.target_parent)) =>
    LET t == allele_column(cfg.target_parent)
    IN  result.rows =
          SelectSeq(arg.rows, LAMBDA row :
            /\ IsCall(row[t])
            /\ \A o \in OtherAlleleColumns(arg, cfg.target_parent) :
                  IsCall(row[o]) /\ row[o] # row[t])

C2_Witness ==
  /\ pc = "filtered"
  /\ ~target_missing(arg, cfg.target_parent)
  /\ OtherAlleleColumns(arg, cfg.target_parent) # {}
  /\ Len(result.rows) = 1
  /\ \E i \in DOMAIN arg.rows :
        /\ IsCall(arg.rows[i][allele_column(cfg.target_parent)])
        /\ \E o \in OtherAlleleColumns(arg, cfg.target_parent) : arg.rows[i][o] = "N"
        /\ \A j \in DOMAIN result.rows : result.rows[j] # arg.rows[i]

\* ------------------------------------------------------------ ranking
reliability_values == [r \in {"low", "medium", "high"} |-> 
                         IF r = "low" THEN 1 ELSE IF r = "medium" THEN 2 ELSE 3]

\* fast_quality_score, in hundredths (QUAL / 100 is QUAL hundredths)
fast_quality_score(row) ==
    100 * (IF row.overall_reliability \in DOMAIN reliability_values
           THEN reliability_values[row.overall_reliability] ELSE 1)
  + (IF row.complete_info THEN 200 ELSE 0)
  + (IF row.has_f2_data THEN 100 ELSE 0)
  + (IF row.QUAL # None THEN Min(200, row.QUAL[1]) ELSE 0)
  + (IF "primer_compliant" \in DOMAIN row /\ row.primer_compliant THEN 100 ELSE 0)

\* the order of sort_values(['quality_score', 'QUAL'], ascending=[False, False]),
\* a missing QUAL last: a sorts no later than b
rank_le(a, b) ==
  \/ a.quality_score > b.quality_score
  \/ /\ a.quality_score = b.quality_score
     /\ \/ b.QUAL = None
        \/ a.QUAL # None /\ a.QUAL[1] >= b.QUAL[1]

RECURSIVE insert_ranked(_, _)
insert_ranked(r, s) ==
  IF s = <<>> THEN <<r>>
  ELSE IF rank_le(Head(s), r) THEN <<Head(s)>> \o insert_ranked(r, Tail(s))
  ELSE <<r>> \o s

RECURSIVE sort_ranked(_)
sort_ranked(rows) ==
  IF rows = <<>> THEN <<>>
  ELSE insert_ranked(rows[Len(rows)], sort_ranked(SubSeq(rows, 1, Len(rows) - 1)))

\* steps 5 and 6: score, sort, head(max_snps)
rank_and_truncate(spaced, max_snps) ==
  LET scored == [i \in DOMAIN spaced.rows |->
                   [quality_score |-> fast_quality_score(spaced.rows[i])] @@ spaced.rows[i]]
      final == sort_ranked(scored)
  IN  [columns |-> spaced.columns \cup {"quality_score"},
       rows |-> IF Len(final) > max_snps THEN SubSeq(final, 1, max_snps) ELSE final]

\* ------------------------------------------------------------ pipeline
\* df[quality_mask]
quality_gate(d, min_reliability) ==
  [columns |-> d.columns,
   rows |-> SelectSeq(d.rows, LAMBDA row :
              /\ row.complete_info = TRUE
              /\ row.overall_reliability \in DOMAIN reliability_values
              /\ reliability_values[row.overall_reliability]
                   >= reliability_values[min_reliability]
              /\ row.has_f2_data = TRUE)]

\* retain_compliant with a fault: no fallback to the diagnostic variants
retain_compliant_no_fallback(screened, diagnostic) ==
  [columns |-> screened.columns,
   rows |-> SelectSeq(screened.rows, LAMBDA row : row.primer_compliant = TRUE)]

\* screened[screened['primer_compliant'] == True], or diagnostic when that is empty
retain_compliant(screened, diagnostic) ==
  LET kept == SelectSeq(screened.rows, LAMBDA row : row.primer_compliant = TRUE)
  IN  IF Len(kept) = 0 THEN diagnostic
      ELSE [columns |-> screened.columns, rows |-> kept]

\* ------------------------------------------------------------ SpecPipeline
PipelinePlaces == {PosRow("1", 0), PosRow("1", 1), PosRow("1", 5), PosRow("2", 1)}
PipelineAlleles ==
  {("664c_allele" :> "A") @@ ("767_allele" :> "T"),
   ("664c_allele" :> "A") @@ ("767_allele" :> "A")}
PipelineQuality ==
  {[overall_reliability |-> "high", complete_info |-> TRUE, has_f2_data |-> TRUE,
    QUAL |-> Some(250)],
   [overall_reliability |-> "medium", complete_info |-> TRUE, has_f2_data |-> TRUE,
    QUAL |-> Some(50)],
   [overall_reliability |-> "low", complete_info |-> TRUE, has_f2_data |-> FALSE,
    QUAL |-> None]}
PipelineRows ==
  {p @@ a @@ q : p \in PipelinePlaces, a \in PipelineAlleles, q \in PipelineQuality}
PipelineColumns ==
  {"CHROM", "POS", "664c_allele", "767_allele", "overall_reliability",
   "complete_info", "has_f2_data", "QUAL"}

InitPipeline ==
  /\ \E k \in 0..MaxPipelineRows : \E s \in [1..k -> PipelineRows] :
        df = [columns |-> PipelineColumns, rows |-> s]
  /\ cfg \in {[DefaultCfg EXCEPT !.primer_size = 1, !.amplicon_size = 4,
                                !.displacement_steps = 0, !.min_spacing = m,
                                !.target_parent = t, !.max_snps = k] :
                m \in {2, Pipeline_min_spacing}, t \in {"664c", "1034"},
                k \in {1, Default_max_snps}}
  /\ pc = "quality"
  /\ arg = Unset
  /\ result = Unset
  /\ locals = NoLocals
  /\ invoked = <<>>
  /\ log = <<>>

\* Step 1: the quality gate, and the return on an empty table
QualityFilter ==
  /\ pc = "quality"
  /\ LET filtered == quality_gate(df, cfg.min_reliability)
     IN  /\ locals' = [locals EXCEPT !.filtered = filtered]
         /\ IF Len(filtered.rows) = 0
            THEN pc' = "done" /\ result' = EmptyDataFrame
            ELSE pc' = "diagnostic" /\ result' = result
  /\ arg' = df
  /\ invoked' = Append(invoked, "quality")
  /\ UNCHANGED <<df, cfg, log>>

\* Step 2: fast_filter_diagnostic_variants, and the return on an empty table
DiagnosticStep ==
  /\ pc = "diagnostic"
  /\ LET diagnostic == fast_filter_diagnostic_variants(locals.filtered, cfg.target_parent)
     IN  /\ locals' = [locals EXCEPT !.diagnostic = diagnostic]
         /\ IF Len(diagnostic.rows) = 0
            THEN pc' = "done" /\ result' = EmptyDataFrame
            ELSE pc' = "screen" /\ result' = result
  /\ log' = IF target_missing(locals.filtered, cfg.target_parent)
            THEN Append(log, ErrorTargetNotFound) ELSE log
  /\ arg' = locals.filtered
  /\ invoked' = Append(invoked, "diagnostic")
  /\ UNCHANGED <<df, cfg>>

\* Step 3: fast_screen_variants_parallel
ScreenStep ==
  /\ pc = "screen"
  /\ \E n \in WorkerChoices, cpu_count \in CpuCounts :
       LET workers == resolve_workers(n, cpu_count)
       IN  /\ cfg' = [cfg EXCEPT !.n_workers = Some(workers)]
           /\ IF parallel_raises(locals.diagnostic, workers)
              THEN pc' = "ValueError" /\ locals' = locals
              ELSE /\ pc' = "retain"
                   /\ locals' = [locals EXCEPT !.screened =
                        fast_screen_variants_parallel(locals.diagnostic, cfg.primer_size,
                          cfg.amplicon_size, cfg.displacement_steps, workers)]
  /\ arg' = locals.diagnostic
  /\ invoked' = Append(invoked, "screen")
  /\ UNCHANGED <<df, result, log>>

\* the primer-compliant rows, with the fallback to the diagnostic variants
RetainStep ==
  /\ pc = "retain"
  /\ locals' = [locals EXCEPT !.primer_compliant =
                  retain_compliant(locals.screened, locals.diagnostic)]
  /\ log' = IF \A i \in DOMAIN locals.screened.rows :
                  locals.screened.rows[i].primer_compliant # TRUE
            THEN Append(log, WarningNoCompliant) ELSE log
  /\ arg' = locals.screened
  /\ invoked' = Append(invoked, "retain")
  /\ pc' = "spacing"
  /\ UNCHANGED <<df, cfg, result>>

\* Step 4: fast_apply_spacing_filter, and the return on an empty table
SpacingStep ==
  /\ pc = "spacing"
  /\ LET spaced == fast_apply_spacing_filter(locals.primer_compliant, cfg.min_spacing)
     IN  /\ locals' = [locals EXCEPT !.spaced = spaced]
         /\ IF Len(spaced.rows) = 0
            THEN pc' = "done" /\ result' = EmptyDataFrame
            ELSE pc' = "rank" /\ result' = result
  /\ arg' = locals.primer_compliant
  /\ invoked' = Append(invoked, "spacing")
  /\ UNCHANGED <<df, cfg, log>>

\* Step 5: scoring, sorting and truncation
RankStep ==
  /\ pc = "rank"
  /\ result' = rank_and_truncate(locals.spaced, cfg.max_snps)
  /\ arg' = locals.spaced
  /\ invoked' = Append(invoked, "rank")
  /\ pc' = "done"
  /\ UNCHANGED <<df, cfg, locals, log>>

NextPipeline ==
  \/ QualityFilter
  \/ DiagnosticStep
  \/ ScreenStep
  \/ RetainStep
  \/ SpacingStep
  \/ RankStep

SpecPipeline == InitPipeline /\ [][NextPipeline]_vars

\* ------------------------------------------------------------ claims on the pipeline
StageOrder == <<"quality", "diagnostic", "screen", "retain", "spacing", "rank">>

Ran(n) == Len(invoked) >= n

\* the pipeline returned the empty result right after its n-th stage
ReturnedEmptyAfter(n) ==
  /\ pc = "done"
  /\ result = EmptyDataFrame
  /\ invoked = SubSeq(StageOrder, 1, n)

NoneCompliant ==
  \A i \in DOMAIN locals.screened.rows : ~locals.screened.rows[i].primer_compliant

\* C4: the stages run in the order quality gate, diagnostic filter, screening,
\* compliant-only retention, spacing filter, ranking; an empty quality gate,
\* diagnostic filter or spacing filter returns the empty result with no later
\* stage invoked; when no screened row is compliant the whole diagnostic set is
\* handed to the spacing filter and the pipeline goes on.
C4_StageOrderAndFallback ==
  /\ Len(invoked) <= Len(StageOrder)
  /\ invoked = SubSeq(StageOrder, 1, Len(invoked))
  /\ (Ran(1) /\ Len(locals.filtered.rows) = 0) => ReturnedEmptyAfter(1)
  /\ (Ran(2) /\ Len(locals.diagnostic.rows) = 0) => ReturnedEmptyAfter(2)
  /\ (Ran(5) /\ Len(locals.spaced.rows) = 0) => ReturnedEmptyAfter(5)
  /\ (Ran(4) /\ ~NoneCompliant) =>
        /\ locals.primer_compliant.rows # <<>>
        /\ locals.primer_compliant.rows =
             SelectSeq(locals.screened.rows, LAMBDA row : row.primer_compliant)
  /\ (Ran(4) /\ NoneCompliant) =>
        /\ locals.diagnostic.rows # <<>>
        /\ locals.primer_compliant = locals.diagnostic
  /\ (Ran(5) /\ NoneCompliant) =>
        /\ invoked = SubSeq(StageOrder, 1, 5) => arg = locals.diagnostic
        /\ locals.spaced.rows # <<>>
        /\ pc = "done" => (invoked = StageOrder /\ result.rows # <<>>)

C4_Witness ==
  /\ pc = "done"
  /\ invoked = StageOrder
  /\ NoneCompliant
  /\ Len(locals.diagnostic.rows) >= 2
  /\ Len(result.rows) >= 1

\* C5: when the table has no '<target>_allele' column, the pipeline does not end
\* with the ordinary empty result it returns when no variant is diagnostic.
C5_ConfigErrorSurfaced ==
  (Ran(2) /\ target_missing(locals.filtered, cfg.target_parent)) =>
     ~(pc = "done" /\ result = EmptyDataFrame)

\* ------------------------------------------------------------ claims on screening
InRegion(q, lo, hi) == lo <= q /\ q <= hi

\* some position of the group other than pos lies in a primer region of [start, end]
RegionsHit(group, pos, start, end, primer_size) ==
  \E j \in DOMAIN group.rows :
     LET q == group.rows[j].POS
     IN  /\ q # pos
         /\ \/ InRegion(q, start, start + primer_size)
            \/ InRegion(q, end - primer_size, end)

\* C1: after the screener ran on a chromosome group, every primer_compliant row
\* has a window that contains its own position and whose two primer regions
\* hold no position of the group that differs from its own.
C1_CompliantWindowFree ==
  pc = "screened_group" =>
    \A i \in DOMAIN result.rows :
       LET v == result.rows[i]
       IN  v.primer_compliant =>
             /\ v.amplicon_start # None
             /\ v.amplicon_end # None
             /\ InRegion(v.POS, v.amplicon_start[1], v.amplicon_end[1])
             /\ ~RegionsHit(arg, v.POS, v.amplicon_start[1],
                            v.amplicon_end[1], cfg.primer_size)

C1_Witness ==
  /\ pc = "screened_group"
  /\ Len(arg.rows) >= 2
  /\ \E i \in DOMAIN result.rows :
        /\ result.rows[i].primer_compliant
        /\ result.rows[i].displacement # 0
        /\ \E j \in DOMAIN arg.rows :
              arg.rows[j].POS # result.rows[i].POS

\* C7: after the screener ran, every row that is not primer_compliant has a
\* conflict in its centered window, and no shift direction*step, step in
\* 1..displacement_steps, direction in {-1, 1}, gives a window that contains
\* the row's position and has both primer regions free.
C7_NonCompliantHasNoPlacement ==
  pc = "screened_group" =>
    \A i \in DOMAIN result.rows :
       LET v == result.rows[i]
           start == v.POS - (cfg.amplicon_size \div 2)
           end == v.POS + (cfg.amplicon_size \div 2)
       IN  ~v.primer_compliant =>
             /\ RegionsHit(arg, v.POS, start, end, cfg.primer_size)
             /\ \A step \in 1..cfg.displacement_steps : \A direction \in {-1, 1} :
                   ~ /\ InRegion(v.POS, start + direction * step, end + direction * step)
                     /\ ~RegionsHit(arg, v.POS, start + direction * step,
                                    end + direction * step, cfg.primer_size)

C7_Witness ==
  /\ pc = "screened_group"
  /\ cfg.displacement_steps >= 1
  /\ \E i \in DOMAIN result.rows : ~result.rows[i].primer_compliant

\* the centered window of row v was accepted: v is compliant, at the centered start
CenteredAccepted(v) ==
  /\ v.primer_compliant
  /\ v.amplicon_start = Some(v.POS - (cfg.amplicon_size \div 2))

\* C8 (as stated): displacement = 0 exactly when the centered window was accepted.
C8_Original ==
  pc = "screened_group" =>
    \A i \in DOMAIN result.rows :
       result.rows[i].displacement = 0 <=> CenteredAccepted(result.rows[i])

\* C8 (amended): a primer_compliant row has displacement 0 exactly when its
\* centered window was accepted; a row that is not primer_compliant keeps the
\* initial displacement 0.
C8_DisplacementZero ==
  pc = "screened_group" =>
    \A i \in DOMAIN result.rows :
       LET v == result.rows[i]
       IN  /\ v.primer_compliant => (v.displacement = 0 <=> CenteredAccepted(v))
           /\ ~v.primer_compliant => v.displacement = 0

C8_Witness ==
  /\ pc = "screened_group"
  /\ \E i, j \in DOMAIN result.rows :
        /\ ~result.rows[i].primer_compliant
        /\ result.rows[j].primer_compliant /\ result.rows[j].displacement # 0

\* the scenario of C9: positions 1000, 1015, 5000 on chromosome "1",
\* primer_size 20, amplicon_size 300
C9_Scenario ==
  /\ pc = "screened_group"
  /\ arg.rows = <<PosRow("1", 1000), PosRow("1", 1015), PosRow("1", 5000)>>
  /\ cfg.primer_size = 20
  /\ cfg.amplicon_size = 300

\* C9 (as stated): in the scenario, the centered windows of 1000 and of 1015
\* each have a primer-region conflict, and 5000 is compliant with displacement 0.
C9_Original ==
  C9_Scenario =>
    /\ RegionsHit(arg, 1000, 1000 - 150, 1000 + 150, 20)
    /\ RegionsHit(arg, 1015, 1015 - 150, 1015 + 150, 20)
    /\ result.rows[3].primer_compliant
    /\ result.rows[3].displacement = 0

\* C9 (amended): in the scenario no centered window has a primer-region
\* conflict (1015 is outside [850, 870] and [1130, 1150]; 1000 is outside
\* [865, 885] and [1145, 1165]); all three rows are compliant with displacement 0
\* and their centered windows.
C9_AllCentered ==
  C9_Scenario =>
    /\ ~RegionsHit(arg, 1000, 850, 1150, 20)
    /\ ~RegionsHit(arg, 1015, 865, 1165, 20)
    /\ \A i \in 1..3 :
          /\ result.rows[i].primer_compliant
          /\ result.rows[i].displacement = 0
          /\ result.rows[i].amplicon_start = Some(result.rows[i].POS - 150)
          /\ result.rows[i].amplicon_end = Some(result.rows[i].POS + 150)

C9_Witness == C9_Scenario /\ Len(result.rows) = 3

\* C6: for worker_count >= 1, every row of the coordinator's output carries the
\* annotations the screener gives that row when run on its chromosome's group alone.
C6_ParallelEqualsPerGroup ==
  (pc = "screened_parallel" /\ cfg.n_workers # None /\ cfg.n_workers[1] >= 1) =>
    \A i \in DOMAIN result.rows :
       LET alone == fast_screen_single_chromosome(
                      chrom_group(df, result.rows[i].CHROM), cfg.primer_size,
                      cfg.amplicon_size, cfg.displacement_steps)
       IN  \E j \in DOMAIN alone.rows : alone.rows[j] = result.rows[i]

====
